---- MODULE Spec2Model ----
(***************************************************************************)
(* Model of backend/backend_mobile_auth.py: the four whitelisted handlers  *)
(* mobile_app_login, reset_app_password, reset_device_id and               *)
(* change_app_password, and the helper generate_api_credentials, over the  *)
(* Employee and User records they read and write.                          *)
(*                                                                         *)
(* Values.  Strings and None are modelled by naturals: 0 is the empty      *)
(* value (None or ""), which Python's truth test (`not x`) treats alike;   *)
(* 1, 2, ... are distinct non-empty strings.  The login identifier `usr`   *)
(* is a sequence of characters, so that usr.strip() is computed.           *)
(* frappe.generate_hash is a source of fresh values: the n-th call         *)
(* returns n.                                                              *)
(***************************************************************************)
EXTENDS Naturals, Sequences, FiniteSets, TLC

VARIABLES
    employee,   \* the Employee records: name -> the fields the handlers use
    user,       \* the User records: name -> api_key, api_secret
    sessions,   \* the users login_as has established a session for
    hashes,     \* how many values frappe.generate_hash has returned
    response,   \* the last call that ended: the handler, what its caller got, and
                \* the collaborator calls that raised during it
    inflight    \* the logins in progress, when requests overlap

vars == <<employee, user, sessions, hashes, response, inflight>>

(* ------------------------------ bounds -------------------------------- *)

MaxPw == 2
MaxDev == 1
MaxHash == 3

Passwords == 0..MaxPw
DevVals == 0..MaxDev

\* Device descriptors <<device_id, device_model, device_brand>> the mobile app may
\* send: one phone, <<1, 1, 1>>, and every descriptor that differs from it in a
\* single field (an empty field included).
Differing(d) == Cardinality({i \in 1..3 : d[i] # 1})
Devices == {d \in DevVals \X DevVals \X DevVals : Differing(d) <= 1}

(* ------------------------- the records' keys -------------------------- *)

Employees == {"E1", "E2"}
NoEmployee == "none"
Guest == "Guest"
Users == {"u1", "u2", "hr"}
EmployeeWriters == {"hr"}
Requests == {"r1", "r2"}

SP == " "
app_id == [e \in Employees |-> IF e = "E1" THEN <<"a", "1">> ELSE <<"a", "2">>]
user_id == [e \in Employees |-> IF e = "E1" THEN "u1" ELSE "u2"]

UsrInputs == { <<SP>>, <<SP, "a", "1", SP>>, <<"a", "2">>, <<"z">> }
EmployeeIds == Employees \cup {"E9"}

(* ------------------------------ messages ------------------------------ *)

MsgAppIdRequired == "App ID is required"
MsgInvalidAppId == "Invalid App ID"
MsgEssDisabled == "Employee Self Service is not enabled for this account"
MsgPasswordNotSet == "App password not set. Please contact administrator"
MsgInvalidPassword == "Invalid app password"
MsgDeviceMismatch == "Access denied. This account is registered to a different device. Please contact HR to reset device access."
MsgLoginSuccessful == "Login successful"
MsgLoginError == "An error occurred during login. Please try again"
MsgAuthRequired == "Authentication required"
MsgEmployeeNotFound == "Employee record not found"
MsgPasswordReset == "Password reset successfully"
MsgError == "An error occurred. Please try again"
MsgInsufficient == "Insufficient permissions"
MsgDeviceReset == "Device ID has been reset successfully. Employee can now login from a new device."
MsgNoEmployee == "No employee record found"
MsgCurrentIncorrect == "Current app password is incorrect"
MsgPasswordChanged == "App password changed successfully"

(* --------------------------- Python helpers --------------------------- *)

Truthy(v) == v # 0

RECURSIVE lstrip(_)
lstrip(s) == IF s # <<>> /\ Head(s) = SP THEN lstrip(Tail(s)) ELSE s

RECURSIVE rstrip(_)
rstrip(s) == IF s # <<>> /\ s[Len(s)] = SP THEN rstrip(SubSeq(s, 1, Len(s) - 1)) ELSE s

strip(s) == rstrip(lstrip(s))

now_datetime == 1

generate_hash(h) == h + 1

(* ------------------------------ results ------------------------------- *)

NoData == [employee_id |-> NoEmployee, user |-> Guest, api_key |-> 0, api_secret |-> 0,
           device_id |-> 0, require_password_reset |-> 0]

Failure(msg) == [raised |-> FALSE, success |-> FALSE, message |-> msg, data |-> NoData]
Success(msg, d) == [raised |-> FALSE, success |-> TRUE, message |-> msg, data |-> d]
Raised == [raised |-> TRUE, success |-> FALSE, message |-> "", data |-> NoData]

\* The except clause of a handler: log_error, then the generic failure.  When
\* log_error itself raises, the exception leaves the handler.
Except(msg, logFault) == IF logFault THEN Raised ELSE Failure(msg)

NoFault == "none"

(* --------------------------- record lookups --------------------------- *)

\* frappe.db.get_value("Employee", {"app_id": usr}, ...): the matching record's name.
get_value_by_app_id(usr) ==
    IF \E e \in Employees : app_id[e] = usr
    THEN CHOOSE e \in Employees : app_id[e] = usr
    ELSE NoEmployee

\* frappe.db.get_value("Employee", {"user_id": u}, ...): the matching record's name.
get_value_by_user_id(u) ==
    IF \E e \in Employees : user_id[e] = u
    THEN CHOOSE e \in Employees : user_id[e] = u
    ELSE NoEmployee

\* The dict get_value returns to mobile_app_login: a copy of the fields as read.
Snapshot(E, e) ==
    [name |-> e, user_id |-> user_id[e], app_id |-> app_id[e],
     allow_ess |-> E[e].allow_ess,
     device_id |-> E[e].device_id,
     device_model |-> E[e].device_model,
     device_brand |-> E[e].device_brand,
     device_registered_on |-> E[e].device_registered_on,
     require_password_reset |-> E[e].require_password_reset]

NoSnapshot ==
    [name |-> NoEmployee, user_id |-> Guest, app_id |-> <<>>, allow_ess |-> FALSE,
     device_id |-> 0, device_model |-> 0, device_brand |-> 0,
     device_registered_on |-> 0, require_password_reset |-> 0]

\* What a handler leaves behind: the records, the sessions, the hash counter, and
\* either a returned result or an exception raised inside the try body (exc).
Outcome(E, U, S, h, exc, res) ==
    [employee |-> E, user |-> U, sessions |-> S, hashes |-> h, exc |-> exc, result |-> res]

(* ----------------------- generate_api_credentials ---------------------- *)

\* A variant that issues an api_secret only when the user has none.
generate_api_credentials_KeepSecret(U, h, u, fault) ==
    IF fault = "get_user"
    THEN [user |-> U, hashes |-> h, exc |-> TRUE, api_key |-> 0, api_secret |-> 0]
    ELSE
    LET old_key == U[u].api_key
        old_secret == U[u].api_secret
        api_secret == IF ~Truthy(old_secret) THEN generate_hash(h) ELSE old_secret
        h1 == IF ~Truthy(old_secret) THEN h + 1 ELSE h
        api_key == IF ~Truthy(old_key) THEN generate_hash(h1) ELSE old_key
        h2 == IF ~Truthy(old_key) THEN h1 + 1 ELSE h1
        saved == [U EXCEPT ![u] = [api_key |-> api_key, api_secret |-> api_secret]]
    IN  IF fault = "save_user"
        THEN [user |-> U, hashes |-> h2, exc |-> TRUE, api_key |-> 0, api_secret |-> 0]
        ELSE IF fault = "get_secret"
        THEN [user |-> saved, hashes |-> h2, exc |-> TRUE, api_key |-> 0, api_secret |-> 0]
        ELSE [user |-> saved, hashes |-> h2, exc |-> FALSE,
              api_key |-> api_key, api_secret |-> saved[u].api_secret]

generate_api_credentials(U, h, u, fault) ==
    IF fault = "get_user"
    THEN [user |-> U, hashes |-> h, exc |-> TRUE, api_key |-> 0, api_secret |-> 0]
    ELSE
    LET old_key == U[u].api_key
        api_secret == generate_hash(h)
        h1 == h + 1
        api_key == IF ~Truthy(old_key) THEN generate_hash(h1) ELSE old_key
        h2 == IF ~Truthy(old_key) THEN h1 + 1 ELSE h1
        saved == [U EXCEPT ![u] = [api_key |-> api_key, api_secret |-> api_secret]]
    IN  IF fault = "save_user"
        THEN [user |-> U, hashes |-> h2, exc |-> TRUE, api_key |-> 0, api_secret |-> 0]
        ELSE IF fault = "get_secret"
        THEN [user |-> saved, hashes |-> h2, exc |-> TRUE, api_key |-> 0, api_secret |-> 0]
        ELSE [user |-> saved, hashes |-> h2, exc |-> FALSE,
              api_key |-> api_key, api_secret |-> saved[u].api_secret]

(* --------------------------- mobile_app_login -------------------------- *)

\* A variant that does not check allow_ess.
LoginLookup_NoEssCheck(E, usr, fault) ==
    LET u == strip(usr)
        name == get_value_by_app_id(u)
    IN  IF u = <<>>
        THEN [done |-> TRUE, exc |-> FALSE, result |-> Failure(MsgAppIdRequired), snap |-> NoSnapshot]
        ELSE IF fault = "get_value"
        THEN [done |-> TRUE, exc |-> TRUE, result |-> Failure(MsgLoginError), snap |-> NoSnapshot]
        ELSE IF name = NoEmployee
        THEN [done |-> TRUE, exc |-> FALSE, result |-> Failure(MsgInvalidAppId), snap |-> NoSnapshot]
        ELSE [done |-> FALSE, exc |-> FALSE, result |-> Failure(""), snap |-> Snapshot(E, name)]

\* Lines 20-50: sanitize usr, find the employee, check allow_ess.
\* done = TRUE: the handler has ended (a result, or an exception); otherwise snap
\* is the employee dict the rest of the handler works on.
LoginLookup(E, usr, fault) ==
    LET u == strip(usr)
        name == get_value_by_app_id(u)
    IN  IF u = <<>>
        THEN [done |-> TRUE, exc |-> FALSE, result |-> Failure(MsgAppIdRequired), snap |-> NoSnapshot]
        ELSE IF fault = "get_value"
        THEN [done |-> TRUE, exc |-> TRUE, result |-> Failure(MsgLoginError), snap |-> NoSnapshot]
        ELSE IF name = NoEmployee
        THEN [done |-> TRUE, exc |-> FALSE, result |-> Failure(MsgInvalidAppId), snap |-> NoSnapshot]
        ELSE IF ~E[name].allow_ess
        THEN [done |-> TRUE, exc |-> FALSE, result |-> Failure(MsgEssDisabled), snap |-> NoSnapshot]
        ELSE [done |-> FALSE, exc |-> FALSE, result |-> Failure(""), snap |-> Snapshot(E, name)]

\* A variant that registers the device_id alone.
RegisterDevice_IdOnly(E, name, device_id, device_model, device_brand) ==
    [E EXCEPT ![name].device_id = device_id,
              ![name].device_registered_on = now_datetime]

\* Lines 71-82: first login, register the device information.
RegisterDevice(E, name, device_id, device_model, device_brand) ==
    [E EXCEPT ![name].device_id = device_id,
              ![name].device_model = device_model,
              ![name].device_brand = device_brand,
              ![name].device_registered_on = now_datetime]

\* A variant that compares the device_id alone.
DeviceDiffers_IdOnly(snap, device_id, device_model, device_brand) ==
    snap.device_id # device_id

\* Lines 85-87: the stored device information differs from the supplied one.
DeviceDiffers(snap, device_id, device_model, device_brand) ==
    \/ snap.device_id # device_id
    \/ snap.device_model # device_model
    \/ snap.device_brand # device_brand

\* Lines 93-113: login_as, generate_api_credentials, the success result.
LoginFinish(snap, E, U, S, h, device_id, fault) ==
    IF fault = "login_as"
    THEN Outcome(E, U, S, h, TRUE, Failure(MsgLoginError))
    ELSE
    LET S1 == S \cup {snap.user_id}
        cred == generate_api_credentials(U, h, snap.user_id, fault)
    IN  IF cred.exc
        THEN Outcome(E, cred.user, S1, cred.hashes, TRUE, Failure(MsgLoginError))
        ELSE Outcome(E, cred.user, S1, cred.hashes, FALSE,
                     Success(MsgLoginSuccessful,
                             [employee_id |-> snap.name,
                              user |-> snap.user_id,
                              api_key |-> cred.api_key,
                              api_secret |-> cred.api_secret,
                              device_id |-> device_id,
                              require_password_reset |-> snap.require_password_reset]))

\* Lines 52-113: verify the app password (read from the document as it is now),
\* handle the device binding (against the dict read earlier), log the user in.
LoginComplete(snap, E, U, S, h, app_password, device_id, device_model, device_brand, fault) ==
    IF fault = "get_doc"
    THEN Outcome(E, U, S, h, TRUE, Failure(MsgLoginError))
    ELSE
    LET stored_password == E[snap.name].app_password
    IN  IF ~Truthy(stored_password)
        THEN Outcome(E, U, S, h, FALSE, Failure(MsgPasswordNotSet))
        ELSE IF stored_password # app_password
        THEN Outcome(E, U, S, h, FALSE, Failure(MsgInvalidPassword))
        ELSE IF ~Truthy(snap.device_id)
        THEN IF fault = "set_value"
             THEN Outcome(E, U, S, h, TRUE, Failure(MsgLoginError))
             ELSE LoginFinish(snap,
                              RegisterDevice(E, snap.name, device_id, device_model, device_brand),
                              U, S, h, device_id, fault)
        ELSE IF DeviceDiffers(snap, device_id, device_model, device_brand)
        THEN Outcome(E, U, S, h, FALSE, Failure(MsgDeviceMismatch))
        ELSE LoginFinish(snap, E, U, S, h, device_id, fault)

\* The whole handler on the records as they are: what it leaves and what it returns.
LoginOutcome(E, U, S, h, usr, app_password, device_id, device_model, device_brand, fault) ==
    LET lk == LoginLookup(E, usr, fault)
    IN  IF lk.done
        THEN Outcome(E, U, S, h, lk.exc, lk.result)
        ELSE LoginComplete(lk.snap, E, U, S, h, app_password,
                           device_id, device_model, device_brand, fault)

\* A variant with no except clause: an exception of the try body leaves the handler.
Returned_NoExcept(out, msg, logFault) == IF out.exc THEN Raised ELSE out.result

\* The value the caller gets: the try body's result, or the except clause's.
Returned(out, msg, logFault) == IF out.exc THEN Except(msg, logFault) ELSE out.result

\* The collaborator calls that raised during the handler: the one of the try
\* body, and log_error when it raised in the except clause.
RaisedBy(out, fault, logFault) ==
    IF ~out.exc THEN {}
    ELSE IF logFault THEN {fault, "log_error"}
    ELSE {fault}

mobile_app_login(usr, app_password, device_id, device_model, device_brand, fault, logFault) ==
    \E out \in {LoginOutcome(employee, user, sessions, hashes, usr, app_password,
                              device_id, device_model, device_brand, fault)} :
        /\ out.hashes <= MaxHash
        /\ employee' = out.employee
        /\ user' = out.user
        /\ sessions' = out.sessions
        /\ hashes' = out.hashes
        /\ response' = [op |-> "mobile_app_login",
                        result |-> Returned(out, MsgLoginError, logFault),
                        raised_by |-> RaisedBy(out, fault, logFault)]
        /\ UNCHANGED inflight

(* -------------------------- reset_app_password ------------------------- *)

\* A variant that leaves require_password_reset as it is.
SetPasswordAndClearFlag_KeepFlag(E, name, new_password) ==
    [E EXCEPT ![name].app_password = new_password]

\* Lines 188-191: set the new password, clear the reset flag, save.
SetPasswordAndClearFlag(E, name, new_password) ==
    [E EXCEPT ![name].app_password = new_password,
              ![name].require_password_reset = 0]

ResetPasswordOutcome(E, U, S, h, session_user, new_password, fault) ==
    LET name == get_value_by_user_id(session_user)
    IN  IF session_user = Guest
        THEN Outcome(E, U, S, h, FALSE, Failure(MsgAuthRequired))
        ELSE IF fault = "get_value"
        THEN Outcome(E, U, S, h, TRUE, Failure(MsgError))
        ELSE IF name = NoEmployee
        THEN Outcome(E, U, S, h, FALSE, Failure(MsgEmployeeNotFound))
        ELSE IF fault \in {"get_doc", "save"}
        THEN Outcome(E, U, S, h, TRUE, Failure(MsgError))
        ELSE Outcome(SetPasswordAndClearFlag(E, name, new_password), U, S, h, FALSE,
                     Success(MsgPasswordReset, NoData))

reset_app_password(session_user, new_password, fault, logFault) ==
    \E out \in {ResetPasswordOutcome(employee, user, sessions, hashes,
                                      session_user, new_password, fault)} :
        /\ employee' = out.employee
        /\ response' = [op |-> "reset_app_password",
                        result |-> Returned(out, MsgError, logFault),
                        raised_by |-> RaisedBy(out, fault, logFault)]
        /\ UNCHANGED <<user, sessions, hashes, inflight>>

(* ---------------------------- reset_device_id -------------------------- *)

\* A variant that lets every authenticated user through.
has_permission_AnyUser(session_user) == session_user # Guest

\* frappe.has_permission("Employee", "write") for the session user.
has_permission(session_user) == session_user \in EmployeeWriters

\* Lines 225-231: set the four device fields of the named record to None; a name
\* that matches no record updates nothing.
ClearDevice(E, employee_id) ==
    IF employee_id \in Employees
    THEN [E EXCEPT ![employee_id].device_id = 0,
                   ![employee_id].device_model = 0,
                   ![employee_id].device_brand = 0,
                   ![employee_id].device_registered_on = 0]
    ELSE E

ResetDeviceOutcome(E, U, S, h, session_user, employee_id, fault) ==
    IF fault = "has_permission"
    THEN Outcome(E, U, S, h, TRUE, Failure(MsgError))
    ELSE IF ~has_permission(session_user)
    THEN Outcome(E, U, S, h, FALSE, Failure(MsgInsufficient))
    ELSE IF fault = "set_value"
    THEN Outcome(E, U, S, h, TRUE, Failure(MsgError))
    ELSE Outcome(ClearDevice(E, employee_id), U, S, h, FALSE,
                 Success(MsgDeviceReset, NoData))

reset_device_id(session_user, employee_id, fault, logFault) ==
    \E out \in {ResetDeviceOutcome(employee, user, sessions, hashes,
                                    session_user, employee_id, fault)} :
        /\ employee' = out.employee
        /\ response' = [op |-> "reset_device_id",
                        result |-> Returned(out, MsgError, logFault),
                        raised_by |-> RaisedBy(out, fault, logFault)]
        /\ UNCHANGED <<user, sessions, hashes, inflight>>

(* -------------------------- change_app_password ------------------------ *)

\* A variant that never saves the document.
SetPassword_NotSaved(E, name, new_app_password) == E

\* Lines 287-289: set the new password and save.
SetPassword(E, name, new_app_password) ==
    [E EXCEPT ![name].app_password = new_app_password]

ChangePasswordOutcome(E, U, S, h, session_user, old_app_password, new_app_password, fault) ==
    LET name == get_value_by_user_id(session_user)
    IN  IF fault = "get_value"
        THEN Outcome(E, U, S, h, TRUE, Failure(MsgError))
        ELSE IF name = NoEmployee
        THEN Outcome(E, U, S, h, FALSE, Failure(MsgNoEmployee))
        ELSE IF fault = "get_doc"
        THEN Outcome(E, U, S, h, TRUE, Failure(MsgError))
        ELSE IF ~Truthy(E[name].app_password) \/ E[name].app_password # old_app_password
        THEN Outcome(E, U, S, h, FALSE, Failure(MsgCurrentIncorrect))
        ELSE IF fault = "save"
        THEN Outcome(E, U, S, h, TRUE, Failure(MsgError))
        ELSE Outcome(SetPassword(E, name, new_app_password), U, S, h, FALSE,
                     Success(MsgPasswordChanged, NoData))

change_app_password(session_user, old_app_password, new_app_password, fault, logFault) ==
    \E out \in {ChangePasswordOutcome(employee, user, sessions, hashes,
                                       session_user, old_app_password, new_app_password, fault)} :
        /\ employee' = out.employee
        /\ response' = [op |-> "change_app_password",
                        result |-> Returned(out, MsgError, logFault),
                        raised_by |-> RaisedBy(out, fault, logFault)]
        /\ UNCHANGED <<user, sessions, hashes, inflight>>

(* ------------------------------ the system ----------------------------- *)

\* The Employee records the handlers start from: E1 is a new employee who must
\* still reset the app password; E2 bound a phone and then had self service
\* switched off.
NewEmployee ==
    [allow_ess |-> TRUE, app_password |-> 1, device_id |-> 0, device_model |-> 0,
     device_brand |-> 0, device_registered_on |-> 0, require_password_reset |-> 1]
DisabledEmployee ==
    [allow_ess |-> FALSE, app_password |-> 1, device_id |-> 1, device_model |-> 1,
     device_brand |-> 1, device_registered_on |-> now_datetime, require_password_reset |-> 0]
InitEmployee == [e \in Employees |-> IF e = "E1" THEN NewEmployee ELSE DisabledEmployee]

IdleRequest ==
    [pc |-> "idle", snap |-> NoSnapshot, app_password |-> 0, device_id |-> 0,
     device_model |-> 0, device_brand |-> 0, result |-> Failure("")]

Init ==
    /\ employee = InitEmployee
    /\ user = [u \in Users |-> [api_key |-> 0, api_secret |-> 0]]
    /\ sessions = {}
    /\ hashes = 0
    /\ response = [op |-> "none", result |-> Failure(""), raised_by |-> {}]
    /\ inflight = [r \in Requests |-> IdleRequest]

\* Who calls the three handlers that need a session: the user of employee E1, an
\* HR user with no Employee record of their own, and a guest.
SessionUsers == {"u1", "hr", Guest}

Login ==
    \E usr \in UsrInputs, app_password \in Passwords, d \in Devices :
        mobile_app_login(usr, app_password, d[1], d[2], d[3], NoFault, FALSE)

ResetPassword ==
    \E session_user \in SessionUsers, new_password \in Passwords :
        reset_app_password(session_user, new_password, NoFault, FALSE)

ResetDevice ==
    \E session_user \in SessionUsers, employee_id \in EmployeeIds :
        reset_device_id(session_user, employee_id, NoFault, FALSE)

ChangePassword ==
    \E session_user \in SessionUsers, old \in Passwords, new \in Passwords :
        change_app_password(session_user, old, new, NoFault, FALSE)

Next == Login \/ ResetPassword \/ ResetDevice \/ ChangePassword

Spec == Init /\ [][Next]_vars

(* ------------------- collaborators that may raise ---------------------- *)

\* The collaborator calls of each handler's try body, by the name of the call
\* that raises: get_value (lines 31, 172, 262), get_doc (54-57, 186, 276-279),
\* set_value (76-82, 225-231), login_as (94), the calls of
\* generate_api_credentials (get_user 135, save_user 146, get_secret 148),
\* save (191-192, 289-290), has_permission (219).
LoginFaults ==
    {NoFault, "get_value", "get_doc", "set_value", "login_as",
     "get_user", "save_user", "get_secret"}
ResetPasswordFaults == {NoFault, "get_value", "get_doc", "save"}
ResetDeviceFaults == {NoFault, "has_permission", "set_value"}
ChangePasswordFaults == {NoFault, "get_value", "get_doc", "save"}

\* log_error is reached only after an exception; it may raise as well.
LogFaults(fault) == IF fault = NoFault THEN {FALSE} ELSE BOOLEAN

\* The calls the faults are injected into: with the password the employees start
\* with, from the phone E2 is bound to.
Phone == <<1, 1, 1>>
FaultPasswords == {1}

FaultyLogin ==
    \E usr \in UsrInputs, app_password \in FaultPasswords, fault \in LoginFaults :
        \E logFault \in LogFaults(fault) :
            mobile_app_login(usr, app_password, Phone[1], Phone[2], Phone[3], fault, logFault)

FaultyResetPassword ==
    \E session_user \in SessionUsers, new_password \in FaultPasswords,
       fault \in ResetPasswordFaults :
        \E logFault \in LogFaults(fault) :
            reset_app_password(session_user, new_password, fault, logFault)

FaultyResetDevice ==
    \E session_user \in SessionUsers, employee_id \in EmployeeIds,
       fault \in ResetDeviceFaults :
        \E logFault \in LogFaults(fault) :
            reset_device_id(session_user, employee_id, fault, logFault)

FaultyChangePassword ==
    \E session_user \in SessionUsers, old \in FaultPasswords, new \in FaultPasswords,
       fault \in ChangePasswordFaults :
        \E logFault \in LogFaults(fault) :
            change_app_password(session_user, old, new, fault, logFault)

FaultNext == FaultyLogin \/ FaultyResetPassword \/ FaultyResetDevice \/ FaultyChangePassword

FaultSpec == Init /\ [][FaultNext]_vars

(* -------------------------- overlapping logins ------------------------- *)

\* Two mobile_app_login requests served at the same time.  Nothing in the handler
\* locks the record between the get_value of lines 31-37 and the set_value of
\* lines 76-82, so another request may run between them.

\* Lines 20-50 of request r: the lookup; the dict read is kept for the rest.
LoginBegin(r, usr, app_password, device_id, device_model, device_brand) ==
    /\ inflight[r].pc = "idle"
    /\ \E lk \in {LoginLookup(employee, usr, NoFault)} :
          inflight' = [inflight EXCEPT ![r] =
                         [pc |-> IF lk.done THEN "done" ELSE "verify",
                          snap |-> lk.snap,
                          app_password |-> app_password,
                          device_id |-> device_id,
                          device_model |-> device_model,
                          device_brand |-> device_brand,
                          result |-> lk.result]]
    /\ UNCHANGED <<employee, user, sessions, hashes, response>>

\* Lines 52-113 of request r, on the records as they are by then.
LoginEnd(r) ==
    /\ inflight[r].pc = "verify"
    /\ \E out \in {LoginComplete(inflight[r].snap, employee, user, sessions, hashes,
                                  inflight[r].app_password, inflight[r].device_id,
                                  inflight[r].device_model, inflight[r].device_brand,
                                  NoFault)} :
        /\ out.hashes <= MaxHash
        /\ employee' = out.employee
        /\ user' = out.user
        /\ sessions' = out.sessions
        /\ hashes' = out.hashes
        /\ response' = [op |-> "mobile_app_login", result |-> out.result, raised_by |-> {}]
        /\ inflight' = [inflight EXCEPT ![r].pc = "done", ![r].result = out.result]

RaceBegin ==
    \E r \in Requests, usr \in UsrInputs, app_password \in Passwords, d \in Devices :
        LoginBegin(r, usr, app_password, d[1], d[2], d[3])

RaceEnd == \E r \in Requests : LoginEnd(r)

RaceNext == RaceBegin \/ RaceEnd

RaceSpec == Init /\ [][RaceNext]_vars

(* ======================= the claims, under Spec ======================== *)

\* What the claims speak of.
DeviceFields(E, e) ==
    <<E[e].device_id, E[e].device_model, E[e].device_brand, E[e].device_registered_on>>
Descriptors(E, e) == <<E[e].device_id, E[e].device_model, E[e].device_brand>>
Bound(E, e) == Truthy(E[e].device_id)
Cleared(E, e) == DeviceFields(E, e) = <<0, 0, 0, 0>>
CorrectPassword(E, e, pw) == Truthy(E[e].app_password) /\ pw = E[e].app_password
UsrOf(e) == {usr \in UsrInputs : strip(usr) = app_id[e]}

\* A mobile_app_login call on the records as they are, every collaborator working.
LoginNow(usr, pw, d) ==
    LoginOutcome(employee, user, sessions, hashes, usr, pw, d[1], d[2], d[3], NoFault)
LoginStep(usr, pw, d) ==
    mobile_app_login(usr, pw, d[1], d[2], d[3], NoFault, FALSE)

(* ---- C1 ---- *)

\* C1 as stated: for a bound employee, a login with the correct app id and app
\* password and a descriptor that differs from the stored one returns the
\* device-mismatch failure and leaves the four device fields as they were.
C1_Original ==
    [][\A e \in Employees, pw \in Passwords, d \in Devices : \A usr \in UsrOf(e) :
          (/\ Bound(employee, e)
           /\ CorrectPassword(employee, e, pw)
           /\ d # Descriptors(employee, e)
           /\ LoginStep(usr, pw, d))
          => /\ response'.result = Failure(MsgDeviceMismatch)
             /\ DeviceFields(employee', e) = DeviceFields(employee, e)]_vars

\* C1 (amended): for a bound employee who is allowed self service, a login with
\* the correct app id and app password whose device_id, device_model or
\* device_brand differs from the stored value (in one field or more) returns the
\* device-mismatch failure and changes no record; when self service is not
\* allowed the same call is refused with the ESS-disabled message instead.
C1_DeviceMismatch ==
    \A e \in Employees, pw \in Passwords, d \in Devices : \A usr \in UsrOf(e) :
        (/\ Bound(employee, e)
         /\ CorrectPassword(employee, e, pw)
         /\ d # Descriptors(employee, e))
        => LoginNow(usr, pw, d) =
              Outcome(employee, user, sessions, hashes, FALSE,
                      Failure(IF employee[e].allow_ess
                              THEN MsgDeviceMismatch ELSE MsgEssDisabled))

\* A login was refused for a device mismatch, and the employee it names by its
\* registered phone is bound and allowed self service.
C1_Witness ==
    /\ response.op = "mobile_app_login"
    /\ response.result = Failure(MsgDeviceMismatch)
    /\ \E e \in Employees : Bound(employee, e) /\ employee[e].allow_ess

(* ---- C2 ---- *)

\* C2 as stated: a first login (no device_id stored, self service allowed, correct
\* app password) with any device descriptors succeeds, stores the three
\* descriptors and a registration time, and leaves the employee bound.
C2_FirstLoginBinds ==
    [][\A e \in Employees, pw \in Passwords, d \in Devices : \A usr \in UsrOf(e) :
          (/\ ~Bound(employee, e)
           /\ employee[e].allow_ess
           /\ CorrectPassword(employee, e, pw)
           /\ LoginStep(usr, pw, d))
          => /\ response'.result.success
             /\ Descriptors(employee', e) = d
             /\ Truthy(employee'[e].device_registered_on)
             /\ Bound(employee', e)]_vars

(* ---- C3 ---- *)

\* C3: every successful login returns a non-empty api_secret and api_key, which
\* are then the ones stored for the user; the api_secret differs from the one
\* stored before the call (the one the user's previous successful login
\* returned), the api_key is the stored one whenever one was stored, and no
\* other handler touches a User record.
C3_SecretRotatesKeyStays ==
    /\ \A usr \in UsrInputs, pw \in Passwords, d \in Devices :
          \A out \in {LoginNow(usr, pw, d)} :
          LET data == out.result.data
              u == data.user
          IN  out.result.success =>
                /\ Truthy(data.api_secret)
                /\ Truthy(data.api_key)
                /\ out.user[u] = [api_key |-> data.api_key, api_secret |-> data.api_secret]
                /\ data.api_secret # user[u].api_secret
                /\ Truthy(user[u].api_key) => data.api_key = user[u].api_key
                /\ \A v \in Users \ {u} : out.user[v] = user[v]
    /\ (response.op = "mobile_app_login" /\ response.result.success) =>
          user[response.result.data.user] =
              [api_key |-> response.result.data.api_key,
               api_secret |-> response.result.data.api_secret]
    /\ \A su \in SessionUsers :
          /\ \A p \in Passwords :
                ResetPasswordOutcome(employee, user, sessions, hashes, su, p, NoFault).user = user
          /\ \A id \in EmployeeIds :
                ResetDeviceOutcome(employee, user, sessions, hashes, su, id, NoFault).user = user
          /\ \A p \in Passwords, q \in Passwords :
                ChangePasswordOutcome(employee, user, sessions, hashes, su, p, q, NoFault).user = user

\* A user's second successful login: the api_secret is the hash drawn last, so
\* the api_key was not drawn by this call but kept from an earlier login.
C3_Witness ==
    /\ response.op = "mobile_app_login"
    /\ response.result.success
    /\ response.result.data.api_secret = hashes
    /\ response.result.data.api_key # response.result.data.api_secret

(* ---- C10 ---- *)

\* The message of the first validation check a login fails, "" when it fails none:
\* blank app id, unknown app id, ESS disabled, app password unset, app password
\* mismatch, device mismatch, in this order.
FirstRefusal(usr, pw, d) ==
    LET e == get_value_by_app_id(strip(usr))
    IN  IF strip(usr) = <<>> THEN MsgAppIdRequired
        ELSE IF e = NoEmployee THEN MsgInvalidAppId
        ELSE IF ~employee[e].allow_ess THEN MsgEssDisabled
        ELSE IF ~Truthy(employee[e].app_password) THEN MsgPasswordNotSet
        ELSE IF employee[e].app_password # pw THEN MsgInvalidPassword
        ELSE IF Bound(employee, e) /\ d # Descriptors(employee, e) THEN MsgDeviceMismatch
        ELSE ""

\* C10: a login refused by a validation check returns the message of the first
\* failing check and has no effect: no session, no api_key or api_secret created
\* or rotated, no Employee field written; and a login is refused only by one of
\* these checks.
C10_RefusalHasNoEffect ==
    \A usr \in UsrInputs, pw \in Passwords, d \in Devices :
        \A out \in {LoginNow(usr, pw, d)}, refusal \in {FirstRefusal(usr, pw, d)} :
            /\ refusal # "" =>
                out = Outcome(employee, user, sessions, hashes, FALSE, Failure(refusal))
            /\ refusal = "" => out.result.success

\* A login of an employee with self service switched off was refused with the
\* ESS-disabled message although the app password is set, and nobody has a
\* session or credentials.
C10_Witness ==
    /\ response.op = "mobile_app_login"
    /\ response.result = Failure(MsgEssDisabled)
    /\ \E e \in Employees : ~employee[e].allow_ess /\ Truthy(employee[e].app_password)
    /\ sessions = {}
    /\ \A u \in Users : user[u] = [api_key |-> 0, api_secret |-> 0]

(* ---- C4 ---- *)

\* A login of employee e with password pw on the records E, U, S, h succeeds.
LoginSucceeds(E, U, S, h, e, pw, d) ==
    \A usr \in UsrOf(e) :
        LoginOutcome(E, U, S, h, usr, pw, d[1], d[2], d[3], NoFault).result.success

\* The device d is one employee e may log in from: none is bound, or d is.
DeviceAccepted(E, e, d) == ~Bound(E, e) \/ d = Descriptors(E, e)

\* C4 as stated: after change_app_password(old, new) by a session user with an
\* Employee record and old equal to the stored app password, the stored app
\* password is new, a login with new (self service allowed, from an accepted
\* device) succeeds and a login with old fails.
C4_Original ==
    [][\A su \in SessionUsers, old \in Passwords, new \in Passwords :
          LET e == get_value_by_user_id(su)
          IN  (/\ e # NoEmployee
               /\ CorrectPassword(employee, e, old)
               /\ change_app_password(su, old, new, NoFault, FALSE))
              => /\ employee'[e].app_password = new
                 /\ \A d \in Devices :
                      /\ (employee'[e].allow_ess /\ DeviceAccepted(employee', e, d))
                         => LoginSucceeds(employee', user', sessions', hashes', e, new, d)
                      /\ ~LoginSucceeds(employee', user', sessions', hashes', e, old, d)]_vars

\* C4 (amended): after change_app_password(old, new) by a session user with an
\* Employee record and old equal to the stored (set) app password, the call
\* succeeds, the stored app password is new and nothing else changed; a login with
\* old then fails provided new differs from old, and a login with new (self
\* service allowed, from an accepted device) then succeeds provided new is not
\* empty.
C4_ChangePassword ==
    \A su \in SessionUsers, old \in Passwords, new \in Passwords :
        \A out \in {ChangePasswordOutcome(employee, user, sessions, hashes, su, old, new, NoFault)} :
        LET e == get_value_by_user_id(su)
        IN  (e # NoEmployee /\ CorrectPassword(employee, e, old)) =>
              /\ out = Outcome([employee EXCEPT ![e].app_password = new],
                               user, sessions, hashes, FALSE,
                               Success(MsgPasswordChanged, NoData))
              /\ \A d \in Devices :
                   /\ (Truthy(new) /\ employee[e].allow_ess /\ DeviceAccepted(employee, e, d))
                      => LoginSucceeds(out.employee, out.user, out.sessions, out.hashes, e, new, d)
                   /\ new # old
                      => ~LoginSucceeds(out.employee, out.user, out.sessions, out.hashes, e, old, d)

\* E1 logged in with app password 2 while its reset flag is still set: no
\* reset_app_password has succeeded for E1, so change_app_password replaced the
\* initial password 1, and the login with the new password succeeded.
C4_Witness ==
    /\ response.op = "mobile_app_login"
    /\ response.result.success
    /\ response.result.data.employee_id = "E1"
    /\ employee["E1"].app_password = 2
    /\ employee["E1"].require_password_reset = 1

(* ---- C5 ---- *)

\* C5: reset_device_id(employee_id) by a caller with write permission on Employee
\* succeeds and clears the four device fields of that employee and nothing else;
\* by a caller without it, it returns the permission failure and changes nothing.
C5_ResetDevice ==
    \A su \in SessionUsers, id \in EmployeeIds :
        \A out \in {ResetDeviceOutcome(employee, user, sessions, hashes, su, id, NoFault)} :
            IF su \in EmployeeWriters
            THEN /\ out.result = Success(MsgDeviceReset, NoData)
                 /\ \A e \in Employees :
                      IF e = id
                      THEN /\ Cleared(out.employee, e)
                           /\ out.employee[e].app_password = employee[e].app_password
                           /\ out.employee[e].allow_ess = employee[e].allow_ess
                           /\ out.employee[e].require_password_reset
                                = employee[e].require_password_reset
                      ELSE out.employee[e] = employee[e]
            ELSE out = Outcome(employee, user, sessions, hashes, FALSE,
                               Failure(MsgInsufficient))

\* reset_device_id succeeded and E2, bound from the start and never able to log
\* in, has its four device fields cleared.
C5_Witness ==
    /\ response.op = "reset_device_id"
    /\ response.result.success
    /\ Cleared(employee, "E2")

(* ---- C6 ---- *)

\* C6 as stated: an employee is either unbound (the four device fields empty) or
\* bound; a bound employee keeps its device fields through every call that is
\* not a successful reset_device_id; and the next login of an unbound employee
\* with correct credentials (self service allowed) succeeds and binds the
\* device it comes from.
C6_Lifecycle ==
    /\ [](\A e \in Employees : Cleared(employee, e) \/ Bound(employee, e))
    /\ [][\A e \in Employees :
            (Bound(employee, e)
             /\ ~(response'.op = "reset_device_id" /\ response'.result.success))
            => DeviceFields(employee', e) = DeviceFields(employee, e)]_vars
    /\ [][\A e \in Employees, pw \in Passwords, d \in Devices : \A usr \in UsrOf(e) :
            (/\ ~Bound(employee, e)
             /\ employee[e].allow_ess
             /\ CorrectPassword(employee, e, pw)
             /\ LoginStep(usr, pw, d))
            => /\ response'.result.success
               /\ Bound(employee', e)
               /\ Descriptors(employee', e) = d]_vars

(* ---- C7 ---- *)

\* C7: reset_app_password(new_password) by a session user who has an Employee
\* record succeeds whatever the stored password is, sets that employee's app
\* password to new_password and clears require_password_reset, changing nothing
\* else, so that every login of that employee that then succeeds reports
\* require_password_reset = 0; as Guest or for a user with no Employee record it
\* fails and changes nothing.
C7_ResetPassword ==
    \A su \in SessionUsers, new \in Passwords :
        \A out \in {ResetPasswordOutcome(employee, user, sessions, hashes, su, new, NoFault)} :
        LET e == get_value_by_user_id(su)
        IN  IF su # Guest /\ e # NoEmployee
            THEN /\ out = Outcome([employee EXCEPT ![e].app_password = new,
                                                   ![e].require_password_reset = 0],
                                  user, sessions, hashes, FALSE,
                                  Success(MsgPasswordReset, NoData))
                 /\ \A pw \in Passwords, d \in Devices : \A usr \in UsrOf(e) :
                      \A l \in {LoginOutcome(out.employee, out.user, out.sessions, out.hashes,
                                              usr, pw, d[1], d[2], d[3], NoFault)} :
                          l.result.success => l.result.data.require_password_reset = 0
            ELSE /\ ~out.result.success
                 /\ out.result.message =
                      (IF su = Guest THEN MsgAuthRequired ELSE MsgEmployeeNotFound)
                 /\ out.employee = employee

\* E1, created with require_password_reset = 1, logged in and the login reported
\* require_password_reset = 0: a reset_app_password of E1 came before it.
C7_Witness ==
    /\ response.op = "mobile_app_login"
    /\ response.result.success
    /\ response.result.data.employee_id = "E1"
    /\ response.result.data.require_password_reset = 0
    /\ employee["E1"].require_password_reset = 0

(* ===================== the claims, under FaultSpec ===================== *)

(* ---- C8 ---- *)

GenericMessage(op) == IF op = "mobile_app_login" THEN MsgLoginError ELSE MsgError

FailureMessages ==
    {MsgAppIdRequired, MsgInvalidAppId, MsgEssDisabled, MsgPasswordNotSet,
     MsgInvalidPassword, MsgDeviceMismatch, MsgLoginError, MsgAuthRequired,
     MsgEmployeeNotFound, MsgError, MsgInsufficient, MsgNoEmployee, MsgCurrentIncorrect}

RequestDescriptors(q) == <<q.device_id, q.device_model, q.device_brand>>

\* C9: a login that read the Employee record while it was unbound, and whose app
\* password is correct when it is verified, succeeds and writes its own
\* descriptors over whatever is stored by then: of two such logins, both succeed
\* and the stored binding is the last writer's.
C9_LastWriterWins ==
    [][\A r \in Requests :
          (/\ inflight[r].pc = "verify"
           /\ inflight'[r].pc = "done"
           /\ ~Truthy(inflight[r].snap.device_id)
           /\ CorrectPassword(employee, inflight[r].snap.name, inflight[r].app_password))
          => /\ inflight'[r].result.success
             /\ DeviceFields(employee', inflight[r].snap.name)
                  = RequestDescriptors(inflight[r]) \o <<now_datetime>>]_vars

\* Two logins of one employee with different device descriptors, each with a
\* device_id, both read the record unbound (so both read before either wrote)
\* and both succeeded; the stored binding is that of r2, although r1 was told
\* it had logged in.
C9_Witness ==
    LET a == inflight["r1"]
        b == inflight["r2"]
    IN  /\ a.pc = "done" /\ b.pc = "done"
        /\ a.result.success /\ b.result.success
        /\ a.snap.name = b.snap.name
        /\ ~Truthy(a.snap.device_id) /\ ~Truthy(b.snap.device_id)
        /\ Truthy(a.device_id) /\ Truthy(b.device_id)
        /\ RequestDescriptors(a) # RequestDescriptors(b)
        /\ Descriptors(employee, a.snap.name) = RequestDescriptors(b)

====
